---- MODULE Spec2Model ----
(***************************************************************************)
(* Model of bot.py (the "Mitya" Telegram bot): the reputation store, the   *)
(* context store, the persona table, the sentiment classifier              *)
(* check_toxicity_llm, the conversation engine ask_mitya_ai with its       *)
(* per-chat lock, and the text and voice handlers that call them.          *)
(*                                                                         *)
(* Texts are sequences of string tokens, so that concatenation (the name   *)
(* prefix of save_context) and strip() are computed, not assumed.          *)
(* None is the empty sequence <<>>; an optional value x is <<x>>.          *)
(***************************************************************************)
EXTENDS Integers, Sequences, FiniteSets, TLC

VARIABLES
    users,      \* table users: (user_id, chat_id) -> [first_name, reputation]
    messages,   \* table messages: set of rows [id, chat_id, role, content, timestamp]
    nextId,     \* AUTOINCREMENT counter of messages.id
    now,        \* CURRENT_TIMESTAMP, in whole seconds
    appended,   \* history: every row ever inserted into messages, by id
    repLog,     \* history: the update_reputation calls made, per key, in order
    chat_locks, \* _chat_locks: chat_id -> the lock object kept for the chat
    locks,      \* the asyncio.Lock objects created so far: [holder, waiters]
    task,       \* the handler runs and ask_mitya_ai invocations: id -> locals and position
    probe,      \* input and result of the last pure-function evaluation
    calls,      \* history: number of operations started since the initial state
    db,         \* the SQLite file's write lock and the connections open on it
    chats       \* table chats: chat_id -> [ai_enabled, voice_enabled, reply_chance]

vars == <<users, messages, nextId, now, appended, repLog, chat_locks, locks, task, probe, calls,
          db, chats>>

-----------------------------------------------------------------------------
(* Program constants *)

KeepLimit == 20
FetchLimit == 15
RepMin == -150
RepMax == 150

(* Bounds of the model *)

MaxTicks == 2
MaxAppends == 3
MaxRepCalls == 3
MaxScore == 1000
MaxLen == 3

\* The context store of the initial state: one chat already holds n rows, for n in
\* PreloadSizes, written by n earlier save_context calls, g of them per second.
PreChat == CHOOSE c \in {1, 2} : \A d \in {1, 2} : c <= d
PreloadSizes == {0, KeepLimit - 1}
PreloadGroups == {1, 2, KeepLimit}

Chats == {1, 2}
UserIds == {7}
Names == {"Ann", "Bob"}
Deltas == {-200, -5, 5, 200}
Texts == {<<"hi">>}
Roles == {"user", "assistant"}
None == <<>>
Tasks == {1, 2}
Conns == {1, 2, 3}

\* The order of rows with equal sort keys is left open by SQL: the engine's
\* scan may yield them by ascending or by descending rowid.
TieOrders == {"asc", "desc"}

Max(a, b) == IF a >= b THEN a ELSE b
Min(a, b) == IF a <= b THEN a ELSE b

-----------------------------------------------------------------------------
(* Reputation store *)

Key(chat_id, user_id) == <<user_id, chat_id>>

\* the upsert without MAX and MIN: reputation = reputation + ?
update_reputation_unclamped(tbl, chat_id, user_id, name, change) ==
    LET k == <<user_id, chat_id>> IN
    IF k \in DOMAIN tbl
    THEN [tbl EXCEPT ![k] = [first_name |-> name, reputation |-> tbl[k].reputation + change]]
    ELSE [x \in DOMAIN tbl \cup {k} |->
            IF x = k THEN [first_name |-> name, reputation |-> change] ELSE tbl[x]]

\* INSERT ... VALUES (?, ?, ?, ?): the row of a first call holds `change` as given;
\* ON CONFLICT DO UPDATE SET reputation = MAX(-150, MIN(150, reputation + ?)), first_name = ?
update_reputation(tbl, chat_id, user_id, name, change) ==
    LET k == Key(chat_id, user_id) IN
    IF k \in DOMAIN tbl
    THEN [tbl EXCEPT ![k] = [first_name |-> name,
                             reputation |-> Max(RepMin, Min(RepMax, tbl[k].reputation + change))]]
    ELSE [x \in DOMAIN tbl \cup {k} |->
            IF x = k THEN [first_name |-> name, reputation |-> change] ELSE tbl[x]]

\* SELECT reputation ...; return row[0] if row else 0
get_user_reputation(tbl, chat_id, user_id) ==
    LET k == Key(chat_id, user_id) IN
    IF k \in DOMAIN tbl THEN tbl[k].reputation ELSE 0

\* the table after the SELECT of get_user_reputation with a row created for a missing key
AfterSelect_creating(tbl, chat_id, user_id) ==
    LET k == Key(chat_id, user_id) IN
    IF k \in DOMAIN tbl THEN tbl
    ELSE [x \in DOMAIN tbl \cup {k} |->
            IF x = k THEN [first_name |-> "", reputation |-> 0] ELSE tbl[x]]

\* the table after a read that refreshes the display name of the row it finds
AfterSelect_renaming(tbl, chat_id, user_id) ==
    LET k == Key(chat_id, user_id) IN
    IF k \in DOMAIN tbl THEN [tbl EXCEPT ![k].first_name = "Patsan"] ELSE tbl

\* the table after get_user_reputation: a SELECT, no write and no commit
AfterSelect(tbl, chat_id, user_id) == tbl

\* A connection of update_reputation: opened by aiosqlite.connect, it runs the upsert
\* inside an implicit transaction and then commits.
IdleConn == [pc |-> "idle", chat_id |-> 0, user_id |-> 0, name |-> "", change |-> 0,
             pending |-> <<>>]

\* a write statement, whatever the connection, starts with the write lock taken
WriteLockFree_always(d) == TRUE

\* SQLite lets one connection write at a time: a write statement takes the file's
\* write lock, and waits while another connection's transaction holds it
WriteLockFree(d) == d.writer = None

-----------------------------------------------------------------------------
(* Settings store *)

allowed_columns == {"ai_enabled", "voice_enabled", "reply_chance"}

\* the values of line 172, which are also those of the INSERT of line 165
DefaultSettings == [ai_enabled |-> 1, voice_enabled |-> 1, reply_chance |-> 0]

\* lines 152-156: SELECT ai_enabled, voice_enabled, reply_chance FROM chats
\* WHERE chat_id = ?, then fetchone(): <<>> or <<the row>>
SelectSettings(tbl, chat_id) == IF chat_id \in DOMAIN tbl THEN <<tbl[chat_id]>> ELSE <<>>

\* lines 164-168: INSERT OR IGNORE INTO chats (...) VALUES (?, 1, 1, 0), committed;
\* chat_id is the primary key, so the statement does nothing when the chat has a row
InsertOrIgnore(tbl, chat_id) ==
    IF chat_id \in DOMAIN tbl THEN tbl
    ELSE [c \in DOMAIN tbl \cup {chat_id} |-> IF c = chat_id THEN DefaultSettings ELSE tbl[c]]

\* The steps of get_chat_settings that can fail: aiosqlite.connect (line 150, outside
\* every try), the SELECT (lines 151-160, caught) and the INSERT with its commit
\* (lines 163-170, caught).
StoreFaults == {{}, {"open"}, {"select"}, {"insert"}, {"select", "insert"}}

\* get_chat_settings(chat_id) with the steps of `fails` failing: whether it raises, the
\* dict it returns, and the table it leaves
get_chat_settings(tbl, chat_id, fails) ==
    LET row == IF "select" \in fails THEN <<>> ELSE SelectSettings(tbl, chat_id) IN
    IF "open" \in fails THEN [raised |-> TRUE, value |-> <<>>, tbl |-> tbl]
    ELSE IF row # <<>> THEN [raised |-> FALSE, value |-> row, tbl |-> tbl]
    ELSE [raised |-> FALSE, value |-> <<DefaultSettings>>,
          tbl |-> IF "insert" \in fails THEN tbl ELSE InsertOrIgnore(tbl, chat_id)]

\* update_setting(chat_id, column, value), lines 176-181: nothing for a column that is
\* not allowed, else UPDATE chats SET column = ? WHERE chat_id = ?, committed; the
\* statement changes the rows it finds, and a chat without a row has none
update_setting(tbl, chat_id, column, value) ==
    IF column \notin allowed_columns THEN tbl
    ELSE IF chat_id \in DOMAIN tbl THEN [tbl EXCEPT ![chat_id][column] = value]
    ELSE tbl

-----------------------------------------------------------------------------
(* Context store *)

ChatRows(tbl, chat_id) == {r \in tbl : r.chat_id = chat_id}

\* r1 comes before r2 under ORDER BY timestamp [DESC], ties in scan order `tie`
Before(r1, r2, desc, tie) ==
    IF r1.timestamp # r2.timestamp
    THEN IF desc THEN r1.timestamp > r2.timestamp ELSE r1.timestamp < r2.timestamp
    ELSE IF tie = "asc" THEN r1.id < r2.id ELSE r1.id > r2.id

\* SELECT ... WHERE chat_id = ? ORDER BY timestamp [DESC] LIMIT lim, as a set
LimitSet(rows, desc, tie, lim) ==
    {r \in rows : Cardinality({q \in rows : Before(q, r, desc, tie)}) < lim}

\* the same, as the sequence of rows in result order
LimitSeq(rows, desc, tie, lim) ==
    LET kept == LimitSet(rows, desc, tie, lim) IN
    [i \in 1..Cardinality(kept) |->
        CHOOSE r \in kept : Cardinality({q \in kept : Before(q, r, desc, tie)}) = i - 1]

\* final_content of save_context (the prefix is the transliterated source literal)
FinalContent(role, content, user_name) ==
    IF role = "user" /\ user_name # ""
    THEN <<"Ot polzovatelya ", user_name, ": ">> \o content
    ELSE content

NewRow(id, chat_id, role, content, user_name, ts) ==
    [id |-> id, chat_id |-> chat_id, role |-> role,
     content |-> FinalContent(role, content, user_name), timestamp |-> ts]

\* the DELETE without its outer `chat_id = ?`: every row that is not among the 20 kept
\* of chat_id goes, the rows of the other chats with them
Prune_all_chats(tbl, chat_id, tie) ==
    LET keep == {r.id : r \in LimitSet({r \in tbl : r.chat_id = chat_id}, TRUE, tie, KeepLimit)} IN
    {r \in tbl : r.id \in keep}

\* DELETE FROM messages WHERE chat_id = ? AND id NOT IN
\*   (SELECT id FROM messages WHERE chat_id = ? ORDER BY timestamp DESC LIMIT 20)
Prune(tbl, chat_id, tie) ==
    LET keep == {r.id : r \in LimitSet(ChatRows(tbl, chat_id), TRUE, tie, KeepLimit)} IN
    {r \in tbl : r.chat_id # chat_id \/ r.id \in keep}

\* save_context: INSERT, DELETE, commit; the table after the commit
save_context(tbl, id, chat_id, role, content, user_name, ts, tie) ==
    Prune(tbl \cup {NewRow(id, chat_id, role, content, user_name, ts)}, chat_id, tie)

\* get_context: SELECT role, content ... ORDER BY timestamp ASC LIMIT 15
GetContextRows(tbl, chat_id, tie) == LimitSeq(ChatRows(tbl, chat_id), FALSE, tie, FetchLimit)

get_context(tbl, chat_id, tie) ==
    LET rows == GetContextRows(tbl, chat_id, tie) IN
    [i \in 1..Len(rows) |-> [role |-> rows[i].role, content |-> rows[i].content]]

-----------------------------------------------------------------------------
(* Persona table *)

REP_ADVICE == <<
    <<120, "Legenda Dvora">>,
    <<100, "Avtoritet">>,
    <<80, "blizkiy koresh">>,
    <<60, "svoy patsan">>,
    <<40, "rovnyy tip">>,
    <<10, "prosto prokhozhiy">>,
    <<0, "neytralnyy">>,
    <<-10, "mutnyy tip">>,
    <<-40, "chushpan">>,
    <<-60, "borzyy">>,
    <<-80, "chert">>,
    <<-100, "vrag i krysa">> >>

\* extra_info = "Otnosis neytralno." before the scan
DefaultAdvice == "Otnosis neytralno."

RECURSIVE ScanAdvice_strict(_, _, _)
\* the scan with `rep > threshold` for `rep >= threshold`
ScanAdvice_strict(i, rep, extra_info) ==
    IF i > Len(REP_ADVICE) THEN extra_info
    ELSE IF rep > REP_ADVICE[i][1] THEN REP_ADVICE[i][2]
    ELSE ScanAdvice_strict(i + 1, rep, extra_info)

RECURSIVE ScanAdvice(_, _, _)
\* for threshold, text in REP_ADVICE[i..]: if rep >= threshold: extra_info = text; break
ScanAdvice(i, rep, extra_info) ==
    IF i > Len(REP_ADVICE) THEN extra_info
    ELSE IF rep >= REP_ADVICE[i][1] THEN REP_ADVICE[i][2]
    ELSE ScanAdvice(i + 1, rep, extra_info)

\* the attitude instruction of a score: the scan started from the default
advice_for(rep) == ScanAdvice(1, rep, DefaultAdvice)

-----------------------------------------------------------------------------
(* The chat-completion endpoint's answers and the reply extracted from them *)

RECURSIVE LStrip(_)
LStrip(s) == IF s # <<>> /\ Head(s) = " " THEN LStrip(Tail(s)) ELSE s

RECURSIVE RStrip(_)
RStrip(s) == IF s # <<>> /\ s[Len(s)] = " " THEN RStrip(SubSeq(s, 1, Len(s) - 1)) ELSE s

\* str.strip()
Strip(s) == RStrip(LStrip(s))

\* An answer: the call raises (httpx.TransportError, which covers timeouts and
\* connection errors), or ends with an HTTP status and a JSON body. A field that is
\* missing, null or "" is the empty text <<>> (the three are equally falsy for the
\* `or` of the code).
NoResp == [kind |-> "none", status |-> 0, is_dict |-> FALSE, content |-> <<>>, response |-> <<>>]
Responses ==
    {[kind |-> "raised", status |-> 0, is_dict |-> FALSE, content |-> <<>>, response |-> <<>>],
     [kind |-> "http", status |-> 500, is_dict |-> TRUE, content |-> <<"a">>, response |-> <<>>],
     [kind |-> "http", status |-> 200, is_dict |-> FALSE, content |-> <<>>, response |-> <<>>],
     [kind |-> "http", status |-> 200, is_dict |-> TRUE, content |-> <<>>, response |-> <<>>],
     [kind |-> "http", status |-> 200, is_dict |-> TRUE, content |-> <<" ", "a">>, response |-> <<"b", " ">>],
     [kind |-> "http", status |-> 200, is_dict |-> TRUE, content |-> <<>>, response |-> <<"b", " ">>],
     [kind |-> "http", status |-> 200, is_dict |-> TRUE, content |-> <<" ">>, response |-> <<"b", " ">>]}

Fallback == <<"Chet ya pritormozil, golova pustaya...">>

\* the extraction without raise_for_status
ParseReply_no_status_check(resp) ==
    IF resp.kind # "http" THEN <<>>
    ELSE IF ~resp.is_dict THEN <<>>
    ELSE Strip(IF resp.content # <<>> THEN resp.content ELSE resp.response)

\* the extraction with the flat response field tried first
ParseReply_flat_first(resp) ==
    IF resp.kind # "http" THEN <<>>
    ELSE IF resp.status # 200 THEN <<>>
    ELSE IF ~resp.is_dict THEN <<>>
    ELSE Strip(IF resp.response # <<>> THEN resp.response ELSE resp.content)

\* The body of the try block up to `if reply:`; <<>> stands for every path on which no
\* reply is accepted (an exception of post or raise_for_status, or an empty reply).
ParseReply(resp) ==
    IF resp.kind # "http" THEN <<>>
    ELSE IF resp.status # 200 THEN <<>>
    ELSE IF ~resp.is_dict THEN <<>>
    ELSE Strip(IF resp.content # <<>> THEN resp.content ELSE resp.response)

-----------------------------------------------------------------------------
(* The sentiment classifier check_toxicity_llm *)

\* The characters of a response text: a minus sign, two digits, a letter, a blank
Chars == {"-", "1", "7", "a", " "}
Digits == {"1", "7"}
DigitVal(c) == IF c = "1" THEN 1 ELSE 7

RawTexts == UNION {[1..n -> Chars] : n \in 0..MaxLen}

\* An answer of the generate endpoint: the POST raises (transport error or timeout), or
\* ends with a status, which the code does not look at, and a body: not JSON, JSON that
\* is no object, or an object whose "response" is absent or null, a number, or a text.
ToxResponses ==
    {[kind |-> "raised", status |-> 0, body |-> "none", field |-> "absent", text |-> <<>>]}
    \cup [kind : {"http"}, status : {200, 500}, body : {"invalid", "nondict"},
          field : {"absent"}, text : {<<>>}]
    \cup [kind : {"http"}, status : {200, 500}, body : {"dict"},
          field : {"absent", "number"}, text : {<<>>}]
    \cup [kind : {"http"}, status : {200, 500}, body : {"dict"}, field : {"text"},
          text : RawTexts]

\* does the pattern -?\d+ match at position i of s
MatchesAt(s, i) ==
    \/ s[i] \in Digits
    \/ s[i] = "-" /\ i < Len(s) /\ s[i + 1] \in Digits

RECURSIVE DigitRun(_, _)
\* the longest run of digits of s that starts at position i
DigitRun(s, i) ==
    IF i <= Len(s) /\ s[i] \in Digits THEN <<s[i]>> \o DigitRun(s, i + 1) ELSE <<>>

RECURSIVE IntOf(_)
\* int() of a string of digits
IntOf(ds) == IF ds = <<>> THEN 0 ELSE 10 * IntOf(SubSeq(ds, 1, Len(ds) - 1)) + DigitVal(ds[Len(ds)])

\* re.search with the sign left out of the pattern: \d+
ReSearch_unsigned(s) ==
    LET at == {i \in 1..Len(s) : s[i] \in Digits} IN
    IF at = {} THEN <<>>
    ELSE LET i == CHOOSE x \in at : \A y \in at : x <= y IN <<IntOf(DigitRun(s, i))>>

\* re.search(r'-?\d+', s) and int(match.group()): <<>> without a match, else <<n>>
ReSearch(s) ==
    LET at == {i \in 1..Len(s) : MatchesAt(s, i)} IN
    IF at = {} THEN <<>>
    ELSE LET i == CHOOSE x \in at : \A y \in at : x <= y IN
         IF s[i] = "-" THEN <<0 - IntOf(DigitRun(s, i + 1))>> ELSE <<IntOf(DigitRun(s, i))>>

\* The body of the try block: exc when a statement raises (the POST, response.json() on
\* a body that is not JSON, .get on a body that is no object, .strip on a number).
ToxTry(resp) ==
    IF resp.kind = "raised" \/ resp.body # "dict" \/ resp.field = "number"
    THEN [exc |-> TRUE, value |-> 0]
    ELSE LET raw_result == Strip(resp.text)
             match == ReSearch(raw_result) IN
         IF match # <<>> THEN [exc |-> FALSE, value |-> Max(-5, Min(5, match[1]))]
         ELSE [exc |-> FALSE, value |-> 0]

\* the function without its `except Exception`
check_toxicity_llm_uncaught(resp) == ToxTry(resp)

\* check_toxicity_llm: except Exception: return 0
check_toxicity_llm(resp) ==
    IF ToxTry(resp).exc THEN [exc |-> FALSE, value |-> 0] ELSE ToxTry(resp)

-----------------------------------------------------------------------------
(* The per-chat locks *)

NewLock == [holder |-> None, waiters |-> <<>>]

\* get_chat_lock without `_chat_locks[chat_id] = lock`: a new lock on every call
get_chat_lock_unkept(dict, heap, chat_id) ==
    [lock |-> Len(heap) + 1, dict |-> dict, heap |-> Append(heap, NewLock)]

\* get_chat_lock with one lock for all chats: the first lock made serves every chat_id
get_chat_lock_shared(dict, heap, chat_id) ==
    [lock |-> 1,
     dict |-> [c \in DOMAIN dict \cup {chat_id} |-> 1],
     heap |-> IF heap = <<>> THEN <<NewLock>> ELSE heap]

\* get_chat_lock: the lock kept for chat_id, created and kept on first use
get_chat_lock(dict, heap, chat_id) ==
    IF chat_id \in DOMAIN dict
    THEN [lock |-> dict[chat_id], dict |-> dict, heap |-> heap]
    ELSE [lock |-> Len(heap) + 1,
          dict |-> [c \in DOMAIN dict \cup {chat_id} |->
                        IF c = chat_id THEN Len(heap) + 1 ELSE dict[c]],
          heap |-> Append(heap, NewLock)]

\* asyncio.Lock.acquire by task t: taken at once when free, else t queues
LockAcquire(lk, t) ==
    IF lk.holder = None /\ lk.waiters = <<>>
    THEN [lk EXCEPT !.holder = <<t>>]
    ELSE [lk EXCEPT !.waiters = Append(@, t)]

\* asyncio.Lock.release: the first waiter, if any, is woken and gets the lock
LockRelease(lk) ==
    IF lk.waiters = <<>> THEN [lk EXCEPT !.holder = None]
    ELSE [holder |-> <<Head(lk.waiters)>>, waiters |-> Tail(lk.waiters)]

-----------------------------------------------------------------------------
(* ask_mitya_ai *)

IdleTask ==
    [pc |-> "idle", chat_id |-> 0, user_text |-> <<>>, user_id |-> None, user_name |-> "",
     reply_to_text |-> None, is_auto |-> FALSE,
     history |-> <<>>, hist_ids |-> <<>>, rep |-> 0, extra_info |-> <<>>,
     lock |-> 0, resp |-> NoResp, reply |-> <<>>, result |-> <<>>, wrote |-> <<>>,
     errors |-> <<>>, posts |-> 0, msg |-> <<>>, score |-> 0, updated |-> FALSE, s |-> <<>>]

\* The arguments of a call, as the handlers pass them: the private and voice handlers
\* give user_id alone (user_name keeps its default), the group branch gives the
\* sender's name and the replied-to text, if any, the unsolicited branch sets is_auto.
\* extract_sender_info yields user_id None for a message without a sender.
UserIdArgs == {None} \cup {<<u>> : u \in UserIds}
DefaultName == "Patsan"
ReplyToArgs == {None, <<"r">>}
SenderIds == {<<u>> : u \in UserIds}
CallArgs ==
    [user_id : UserIdArgs, user_name : {DefaultName}, reply_to_text : {None}, is_auto : {FALSE}]
    \cup [user_id : SenderIds, user_name : {DefaultName}, reply_to_text : {None}, is_auto : {TRUE}]
    \cup [user_id : SenderIds, user_name : {"Ann"}, reply_to_text : ReplyToArgs, is_auto : {FALSE}]

BasePrompt(user_name) == <<"Ty - Mitya, derzkiy patsan. Seychas govorish s: ", user_name,
                           ". ... INSTRUKTSIYA PO OTNOSHENIYU K CHELOVEKU: ">>
AutoSuffix == " Ty sam vlez v razgovor bez sprosa. Bud kratok i ostroumen."

\* lines 395-407: rep as read (0 without user_id), the replied-to text appended to the
\* history, the first resolution of extra_info
AfterFirstRead(tk, rep) ==
    [tk EXCEPT !.rep = rep,
               !.history = IF tk.reply_to_text # <<>>
                           THEN Append(@, [role |-> "assistant", content |-> tk.reply_to_text])
                           ELSE @,
               !.hist_ids = IF tk.reply_to_text # <<>> THEN Append(@, 0) ELSE @,
               !.extra_info = <<ScanAdvice(1, rep, DefaultAdvice)>>]

\* lines 420-428: the second read and resolution, when user_id is given
AfterSecondRead(tk, rep) ==
    [tk EXCEPT !.rep = rep, !.extra_info = <<ScanAdvice(1, rep, tk.extra_info[1])>>]

\* lines 430-447: the is_auto suffix, the system prompt put first, the payload
BuildPayload(tk) ==
    LET extra == IF tk.is_auto THEN Append(tk.extra_info, AutoSuffix) ELSE tk.extra_info IN
    [tk EXCEPT !.extra_info = extra,
               !.history = <<[role |-> "system", content |-> BasePrompt(tk.user_name) \o extra]>> \o @,
               !.hist_ids = <<0>> \o @]

\* lines 450-454: the chat's lock is looked up and acquired; the POST is sent when the
\* lock is free, otherwise the task waits for it
EnterLock(t, tk) ==
    LET g == get_chat_lock(chat_locks, locks, tk.chat_id)
        lk == LockAcquire(g.heap[g.lock], t) IN
    /\ chat_locks' = g.dict
    /\ locks' = [g.heap EXCEPT ![g.lock] = lk]
    /\ task' = [task EXCEPT ![t] = [tk EXCEPT !.lock = g.lock,
                                              !.pc = IF lk.holder = <<t>> THEN "post" ELSE "lock",
                                              !.posts = IF lk.holder = <<t>> THEN @ + 1 ELSE @]]

\* A store operation ends normally or raises (sqlite3.Error: the file is locked, the
\* disk is full, ...); a write that raises is rolled back and leaves the table as it was.
Outcomes == {"ok", "error"}

\* line 390: await save_context(chat_id, "user", user_text, user_name), which is outside
\* every try: when it raises, the invocation ends with the exception. tk holds the
\* arguments of the call.
Invoke(t, tk, tie, outcome) ==
    /\ IF outcome = "ok"
       THEN /\ messages' = save_context(messages, nextId, tk.chat_id, "user", tk.user_text,
                                        tk.user_name, now, tie)
            /\ appended' = Append(appended, NewRow(nextId, tk.chat_id, "user", tk.user_text,
                                                   tk.user_name, now))
            /\ nextId' = nextId + 1
            /\ task' = [task EXCEPT ![t] = [tk EXCEPT !.pc = "get_context", !.wrote = <<nextId>>]]
       ELSE /\ task' = [task EXCEPT ![t] = [tk EXCEPT !.pc = "raised", !.errors = <<"save_context">>]]
            /\ UNCHANGED <<messages, appended, nextId>>
    /\ UNCHANGED <<users, now, repLog, chat_locks, locks, probe, calls, db, chats>>

\* A call ask_mitya_ai(chat_id, user_text, ...) and its first statement. Every invocation
\* is a task of its own; the tasks being alike, they start in the order of their numbers.
Start(t, chat_id, user_text, args, tie, outcome) ==
    /\ task[t].pc = "idle"
    /\ \A u \in Tasks : u < t => task[u].pc # "idle"
    /\ Invoke(t, [IdleTask EXCEPT !.chat_id = chat_id, !.user_text = user_text,
                                  !.user_id = args.user_id, !.user_name = args.user_name,
                                  !.reply_to_text = args.reply_to_text, !.is_auto = args.is_auto],
              tie, outcome)

\* line 393: history = await get_context(chat_id), outside every try; without user_id
\* the code runs on, with no await, to the lock
Fetch(t, tie, outcome) ==
    LET rows == GetContextRows(messages, task[t].chat_id, tie)
        tk == [task[t] EXCEPT !.history = get_context(messages, task[t].chat_id, tie),
                              !.hist_ids = [i \in 1..Len(rows) |-> rows[i].id]] IN
    /\ task[t].pc = "get_context"
    /\ IF outcome = "error"
       THEN /\ task' = [task EXCEPT ![t] = [@ EXCEPT !.pc = "raised",
                                                     !.errors = Append(@, "get_context")]]
            /\ UNCHANGED <<chat_locks, locks>>
       ELSE IF tk.user_id = None
       THEN EnterLock(t, BuildPayload(AfterFirstRead(tk, 0)))
       ELSE /\ task' = [task EXCEPT ![t] = [tk EXCEPT !.pc = "rep1"]]
            /\ UNCHANGED <<chat_locks, locks>>
    /\ UNCHANGED <<users, messages, nextId, now, appended, repLog, probe, calls, db, chats>>

\* line 397: rep = await get_user_reputation(chat_id, user_id), outside every try
Rep1(t, outcome) ==
    /\ task[t].pc = "rep1"
    /\ IF outcome = "ok"
       THEN /\ task' = [task EXCEPT ![t] =
                    [AfterFirstRead(@, get_user_reputation(users, @.chat_id, @.user_id[1]))
                        EXCEPT !.pc = "rep2"]]
            /\ users' = AfterSelect(users, task[t].chat_id, task[t].user_id[1])
       ELSE /\ task' = [task EXCEPT ![t] = [@ EXCEPT !.pc = "raised",
                                                     !.errors = Append(@, "get_user_reputation")]]
            /\ UNCHANGED users
    /\ UNCHANGED <<messages, nextId, now, appended, repLog, chat_locks, locks, probe, calls, db, chats>>

\* lines 420-428: the second await get_user_reputation, inside try ... except: pass, so
\* that a read that raises leaves rep and extra_info as they were; then on to the lock
Rep2(t, outcome) ==
    /\ task[t].pc = "rep2"
    /\ IF outcome = "ok"
       THEN /\ EnterLock(t, BuildPayload(AfterSecondRead(task[t],
                    get_user_reputation(users, task[t].chat_id, task[t].user_id[1]))))
            /\ users' = AfterSelect(users, task[t].chat_id, task[t].user_id[1])
       ELSE /\ EnterLock(t, BuildPayload([task[t] EXCEPT !.errors = Append(@, "second read")]))
            /\ UNCHANGED users
    /\ UNCHANGED <<messages, nextId, now, appended, repLog, probe, calls, db, chats>>

\* line 451: the waiting task is woken holding the lock and sends the POST
Acquire(t) ==
    /\ task[t].pc = "lock"
    /\ locks[task[t].lock].holder = <<t>>
    /\ task' = [task EXCEPT ![t] = [@ EXCEPT !.pc = "post", !.posts = @ + 1]]
    /\ UNCHANGED <<users, messages, nextId, now, appended, repLog, chat_locks, locks, probe, calls, db, chats>>

\* lines 454-468 and 471-474: the POST ends with resp; with a reply the task goes on to
\* save it, without one it leaves the lock and returns the fallback phrase
Respond(t, resp) ==
    /\ task[t].pc = "post"
    /\ IF ParseReply(resp) # <<>>
       THEN /\ task' = [task EXCEPT ![t] = [@ EXCEPT !.pc = "save_reply", !.resp = resp,
                                                     !.reply = ParseReply(resp)]]
            /\ UNCHANGED locks
       ELSE /\ task' = [task EXCEPT ![t] = [@ EXCEPT !.pc = "done", !.resp = resp,
                                                     !.result = Fallback]]
            /\ locks' = [locks EXCEPT ![task[t].lock] = LockRelease(@)]
    /\ UNCHANGED <<users, messages, nextId, now, appended, repLog, chat_locks, probe, calls, db, chats>>

\* lines 469-474: await save_context(chat_id, "assistant", reply); return reply. The
\* call is inside the try: when it raises, the exception is logged, the lock is left and
\* the fallback phrase is returned.
SaveReply(t, tie, outcome) ==
    /\ task[t].pc = "save_reply"
    /\ IF outcome = "ok"
       THEN /\ messages' = save_context(messages, nextId, task[t].chat_id, "assistant",
                                        task[t].reply, "", now, tie)
            /\ appended' = Append(appended, NewRow(nextId, task[t].chat_id, "assistant",
                                                   task[t].reply, "", now))
            /\ nextId' = nextId + 1
            /\ task' = [task EXCEPT ![t] = [@ EXCEPT !.pc = "done", !.result = task[t].reply,
                                                     !.wrote = Append(@, nextId)]]
       ELSE /\ task' = [task EXCEPT ![t] = [@ EXCEPT !.pc = "done", !.result = Fallback,
                                                     !.errors = Append(@, "save_context")]]
            /\ UNCHANGED <<messages, appended, nextId>>
    /\ locks' = [locks EXCEPT ![task[t].lock] = LockRelease(@)]
    /\ UNCHANGED <<users, now, repLog, chat_locks, probe, calls, db, chats>>

-----------------------------------------------------------------------------
(* The text and voice handlers *)

\* An inbound message, by what the handlers look at: private chat or group, the bot's
\* name in the text, a reply to a message of the bot, a forward, a bot as sender.
Msg(kind, is_private, mention, is_reply_to_me, is_forward, is_bot) ==
    [kind |-> kind, chat_id |-> 1, user_id |-> 7, name |-> "Ann", text |-> <<"hi">>,
     is_private |-> is_private, mention |-> mention, is_reply_to_me |-> is_reply_to_me,
     is_forward |-> is_forward, is_bot |-> is_bot]

Inbound ==
    {Msg("text", TRUE, FALSE, FALSE, FALSE, FALSE),
     Msg("text", TRUE, FALSE, FALSE, TRUE, FALSE),
     Msg("text", FALSE, TRUE, FALSE, FALSE, FALSE),
     Msg("text", FALSE, FALSE, TRUE, FALSE, FALSE),
     Msg("text", FALSE, FALSE, FALSE, FALSE, FALSE),
     Msg("text", FALSE, TRUE, FALSE, FALSE, TRUE),
     Msg("voice", FALSE, TRUE, FALSE, FALSE, FALSE),
     Msg("voice", FALSE, FALSE, FALSE, FALSE, FALSE),
     Msg("voice", FALSE, TRUE, FALSE, FALSE, TRUE)}

\* what check_toxicity_llm returns for a message: an integer of [-5, 5]
Scores == {-5, 0, 5}

\* should_update for a handler that checks nothing but the score
should_update_always(msg, score) == score # 0

\* smart_text_handler, lines 971-973: not is_bot and not is_forward, should_check_karma
\* and score != 0; handle_voice, line 924: not is_bot and score != 0
should_update(msg, score) ==
    IF msg.kind = "text"
    THEN /\ ~msg.is_bot /\ ~msg.is_forward
         /\ msg.is_private \/ msg.mention \/ msg.is_reply_to_me
         /\ score # 0
    ELSE ~msg.is_bot /\ score # 0

\* the call of the private and of the voice handler: user_id alone
PlainCall(msg) ==
    [user_id |-> <<msg.user_id>>, user_name |-> DefaultName, reply_to_text |-> None,
     is_auto |-> FALSE]

\* handle_voice, lines 929-931: ask_mitya_ai is called when the text names the bot;
\* <<>> or <<the arguments>>
VoiceCall(msg) == IF msg.mention THEN <<PlainCall(msg)>> ELSE <<>>

\* the draws of random.randint(1, 100) at line 1053
Draws == {1, 50, 100}

\* the unsolicited branch taken only when the draw is below reply_chance
AutoHit_strict(reply_chance, draw) == reply_chance > 0 /\ draw < reply_chance

\* line 1053: s['reply_chance'] > 0 and random.randint(1, 100) <= s['reply_chance']
AutoHit(reply_chance, draw) == reply_chance > 0 /\ draw <= reply_chance

\* The ask_mitya_ai call of smart_text_handler, lines 1025-1055, if any: <<>> or <<the
\* arguments>>. None when s['ai_enabled'] is 0; in a private chat user_id alone; for a
\* message that names the bot or replies to it the name and the replied-to text; else,
\* when the draw against reply_chance hits, is_auto.
HandlerCall(msg, s, draw) ==
    IF s.ai_enabled = 0 THEN <<>>
    ELSE IF msg.is_private THEN <<PlainCall(msg)>>
    ELSE IF msg.mention \/ msg.is_reply_to_me
    THEN <<[PlainCall(msg) EXCEPT !.user_name = msg.name,
                                  !.reply_to_text = IF msg.is_reply_to_me THEN <<"r">> ELSE None]>>
    ELSE IF AutoHit(s.reply_chance, draw) THEN <<[PlainCall(msg) EXCEPT !.is_auto = TRUE]>>
    ELSE <<>>

\* the handler's task with its ask_mitya_ai call c decided: it comes to the call, or ends
Proceed(tk, c) ==
    IF c = <<>> THEN [tk EXCEPT !.pc = "ended"]
    ELSE [tk EXCEPT !.pc = "call", !.user_id = c[1].user_id, !.user_name = c[1].user_name,
                    !.reply_to_text = c[1].reply_to_text, !.is_auto = c[1].is_auto]

\* What follows the karma block. smart_text_handler, line 976, reads the chat's settings;
\* handle_voice, which read them at line 894, comes to line 929 without an await.
AfterUpdate(tk) ==
    IF tk.msg[1].kind = "text" THEN [tk EXCEPT !.pc = "settings"]
    ELSE Proceed(tk, VoiceCall(tk.msg[1]))

\* the handler that skips the karma block, whatever the score
AfterClassify_call_first(msg, score) == "skip"

\* after `score = await check_toxicity_llm(raw_text)`: the karma block calls
\* update_reputation, or is skipped
AfterClassify(msg, score) == IF should_update(msg, score) THEN "update" ELSE "skip"

\* A message arrives and its handler runs up to its first await on a model or a store:
\* smart_text_handler to `await check_toxicity_llm(raw_text)`, line 963; handle_voice
\* to `await get_chat_settings(message.chat.id)`, line 894.
Receive(t, msg) ==
    /\ task[t].pc = "idle"
    /\ \A u \in Tasks : u < t => task[u].pc # "idle"
    /\ task' = [task EXCEPT ![t] =
            [IdleTask EXCEPT !.pc = IF msg.kind = "voice" THEN "settings" ELSE "classify",
                             !.chat_id = msg.chat_id, !.user_text = msg.text, !.msg = <<msg>>]]
    /\ UNCHANGED <<users, messages, nextId, now, appended, repLog, chat_locks, locks, probe, calls, db, chats>>

\* lines 963 and 920: the classifier returns score
Classified(t, score) ==
    /\ task[t].pc = "classify"
    /\ task' = [task EXCEPT ![t] =
            IF AfterClassify(task[t].msg[1], score) = "update"
            THEN [@ EXCEPT !.score = score, !.pc = "update"]
            ELSE AfterUpdate([@ EXCEPT !.score = score])]
    /\ UNCHANGED <<users, messages, nextId, now, appended, repLog, chat_locks, locks, probe, calls, db, chats>>

\* update_reputation ends normally with the upsert committed ("ok"), ends normally with
\* the error of its execute or commit caught at lines 195-196 ("error"), or raises the
\* error of aiosqlite.connect, line 185, which is outside its try ("open")
UpdateOutcomes == {"ok", "error", "open"}

\* Lines 974 and 925: await update_reputation(chat_id, user_id, name, score). An
\* exception leaves smart_text_handler, which has no try around the call; in
\* handle_voice it is caught at line 936, after which the handler returns.
Update(t, outcome) ==
    LET m == task[t].msg[1] IN
    /\ task[t].pc = "update"
    /\ IF outcome = "ok"
       THEN /\ users' = update_reputation(users, m.chat_id, m.user_id, m.name, task[t].score)
            /\ repLog' = Append(repLog, [chat_id |-> m.chat_id, user_id |-> m.user_id,
                                         name |-> m.name, change |-> task[t].score])
            /\ task' = [task EXCEPT ![t] = AfterUpdate([@ EXCEPT !.updated = TRUE])]
       ELSE /\ UNCHANGED <<users, repLog>>
            /\ task' = [task EXCEPT ![t] =
                    IF outcome = "error"
                    THEN AfterUpdate([@ EXCEPT !.updated = TRUE, !.errors = Append(@, "upsert")])
                    ELSE [@ EXCEPT !.pc = IF m.kind = "text" THEN "failed" ELSE "ended",
                                   !.errors = Append(@, "update_reputation")]]
    /\ UNCHANGED <<messages, nextId, now, appended, chat_locks, locks, probe, calls, db, chats>>

\* Lines 976-1055: s = await get_chat_settings(chat_id), then the draw against
\* reply_chance, and smart_text_handler comes to its ask_mitya_ai call or ends.
\* Lines 894-896: handle_voice reads the settings and returns when voice_enabled is 0.
\* Neither call is inside a try: an exception of get_chat_settings leaves the handler.
Settings(t, fails, draw) ==
    LET m == task[t].msg[1]
        r == get_chat_settings(chats, m.chat_id, fails) IN
    /\ task[t].pc = "settings"
    /\ chats' = r.tbl
    /\ task' = [task EXCEPT ![t] =
            IF r.raised
            THEN [@ EXCEPT !.pc = "failed", !.errors = Append(@, "get_chat_settings")]
            ELSE IF m.kind = "voice"
            THEN [@ EXCEPT !.s = r.value,
                           !.pc = IF r.value[1].voice_enabled = 0 THEN "ended" ELSE "classify"]
            ELSE Proceed([@ EXCEPT !.s = r.value], HandlerCall(m, r.value[1], draw))]
    /\ UNCHANGED <<users, messages, nextId, now, appended, repLog, chat_locks, locks, probe, calls, db>>

\* lines 1033, 1044, 1055 and 931: the handler calls ask_mitya_ai
Call(t, tie, outcome) ==
    /\ task[t].pc = "call"
    /\ Invoke(t, task[t], tie, outcome)

-----------------------------------------------------------------------------
(* Initial states *)

RECURSIVE Preload(_, _, _)
\* the messages table after save_context calls 1..i of n on PreChat, alternately a
\* user turn and an assistant turn, g calls per second, the last one at second 0
Preload(i, n, g) ==
    IF i = 0 THEN {}
    ELSE save_context(Preload(i - 1, n, g), i, PreChat,
                      IF i % 2 = 1 THEN "user" ELSE "assistant",
                      <<ToString(i)>>, "", 0 - ((n - i) \div g), "asc")

RowsById(tbl, n) == [i \in 1..n |-> CHOOSE r \in tbl : r.id = i]

InitData(n, g) ==
    /\ users = <<>>
    /\ repLog = <<>>
    /\ messages = Preload(n, n, g)
    /\ appended = RowsById(Preload(n, n, g), n)
    /\ nextId = n + 1
    /\ now = 0
    /\ calls = 0
    /\ db = [writer |-> None, conns |-> [c \in Conns |-> IdleConn]]

InitStores(n, g) == InitData(n, g) /\ chats = <<>>

InitTasks ==
    /\ chat_locks = <<>>
    /\ locks = <<>>
    /\ task = [t \in Tasks |-> IdleTask]

InitEngine ==
    /\ InitTasks
    /\ probe = [score |-> 0, text |-> "", resolved |-> FALSE]

-----------------------------------------------------------------------------
(* The stores under arbitrary sequences of calls *)

\* CURRENT_TIMESTAMP advances
Tick ==
    /\ now < MaxTicks
    /\ now' = now + 1
    /\ UNCHANGED <<users, messages, nextId, appended, repLog, chat_locks, locks, task, probe, calls, db, chats>>

\* a call update_reputation(chat_id, user_id, name, change)
RepUpdate(chat_id, user_id, name, change) ==
    /\ calls < MaxRepCalls
    /\ calls' = calls + 1
    /\ users' = update_reputation(users, chat_id, user_id, name, change)
    /\ repLog' = Append(repLog, [chat_id |-> chat_id, user_id |-> user_id,
                                 name |-> name, change |-> change])
    /\ UNCHANGED <<messages, nextId, now, appended, chat_locks, locks, task, probe, db, chats>>

\* a call save_context(chat_id, role, content, user_name)
CtxAppend(chat_id, role, content, user_name, tie) ==
    /\ calls < MaxAppends
    /\ calls' = calls + 1
    /\ messages' = save_context(messages, nextId, chat_id, role, content, user_name, now, tie)
    /\ appended' = Append(appended, NewRow(nextId, chat_id, role, content, user_name, now))
    /\ nextId' = nextId + 1
    /\ UNCHANGED <<users, now, repLog, chat_locks, locks, task, probe, db, chats>>

\* a call get_user_reputation(chat_id, user_id); probe keeps the table as it was before
\* the call and as it is after it, and the value returned
RepGet(chat_id, user_id) ==
    /\ users' = AfterSelect(users, chat_id, user_id)
    /\ probe' = [chat_id |-> chat_id, user_id |-> user_id, before |-> users,
                 after |-> AfterSelect(users, chat_id, user_id),
                 score |-> get_user_reputation(users, chat_id, user_id), read |-> TRUE]
    /\ UNCHANGED <<messages, nextId, now, appended, repLog, chat_locks, locks, task, calls, db, chats>>

InitRep ==
    /\ InitStores(0, 1)
    /\ InitTasks
    /\ probe = [chat_id |-> 0, user_id |-> 0, before |-> <<>>, after |-> <<>>, score |-> 0,
                read |-> FALSE]

NextRep ==
    \/ \E chat_id \in Chats, user_id \in UserIds, name \in Names, change \in Deltas :
            RepUpdate(chat_id, user_id, name, change)
    \/ \E chat_id \in Chats, user_id \in UserIds : RepGet(chat_id, user_id)

SpecRep == InitRep /\ [][NextRep]_vars

-----------------------------------------------------------------------------
(* Concurrent update_reputation calls, each on a connection of its own *)

\* line 185: the call, and its aiosqlite.connect; the connections being alike, they
\* open in the order of their numbers
RepOpen(c, chat_id, user_id, name, change) ==
    /\ db.conns[c].pc = "idle"
    /\ \A d \in Conns : d < c => db.conns[d].pc # "idle"
    /\ db' = [db EXCEPT !.conns[c] = [IdleConn EXCEPT !.pc = "execute", !.chat_id = chat_id,
                                         !.user_id = user_id, !.name = name, !.change = change]]
    /\ UNCHANGED <<users, messages, nextId, now, appended, repLog, chat_locks, locks, task, probe,
                   calls, chats>>

\* lines 187-193: await db.execute(the upsert): with the write lock, the statement reads
\* the committed table and leaves its result pending in the transaction
RepExecute(c) ==
    /\ db.conns[c].pc = "execute"
    /\ WriteLockFree(db)
    /\ db' = [db EXCEPT !.writer = <<c>>,
                        !.conns[c].pc = "commit",
                        !.conns[c].pending =
                            <<update_reputation(users, db.conns[c].chat_id, db.conns[c].user_id,
                                                db.conns[c].name, db.conns[c].change)>>]
    /\ UNCHANGED <<users, messages, nextId, now, appended, repLog, chat_locks, locks, task, probe,
                   calls, chats>>

\* line 194: await db.commit(): the pending result becomes the table, the lock is left
RepCommit(c) ==
    /\ db.conns[c].pc = "commit"
    /\ users' = db.conns[c].pending[1]
    /\ repLog' = Append(repLog, [chat_id |-> db.conns[c].chat_id, user_id |-> db.conns[c].user_id,
                                 name |-> db.conns[c].name, change |-> db.conns[c].change])
    /\ db' = [db EXCEPT !.writer = IF @ = <<c>> THEN None ELSE @,
                        !.conns[c].pc = "done"]
    /\ UNCHANGED <<messages, nextId, now, appended, chat_locks, locks, task, probe, calls, chats>>

InitRepTx == InitRep

NextRepTx ==
    \/ \E c \in Conns, chat_id \in Chats, user_id \in UserIds, name \in Names, change \in Deltas :
            RepOpen(c, chat_id, user_id, name, change)
    \/ \E c \in Conns : RepExecute(c)
    \/ \E c \in Conns : RepCommit(c)

SpecRepTx == InitRepTx /\ [][NextRepTx]_vars

-----------------------------------------------------------------------------
(* The settings store under arbitrary sequences of calls *)

\* the values written: the toggles write 0 and 1, the chance buttons a percentage
SettingValues == {0, 1, 100}

\* the columns named by a caller: the three allowed ones and one that is not
Columns == allowed_columns \cup {"chat_id"}

\* a call get_chat_settings(chat_id); probe keeps the last call, the chat's row before
\* it, whether it raised and what it returned, and the chats whose table calls have
\* read or written without a storage failure
SetGet(chat_id, fails) ==
    LET r == get_chat_settings(chats, chat_id, fails) IN
    /\ chats' = r.tbl
    /\ probe' = [op |-> "get", chat_id |-> chat_id, column |-> "", value |-> 0,
                 fails |-> fails, before |-> SelectSettings(chats, chat_id),
                 raised |-> r.raised, result |-> r.value,
                 seen |-> IF fails = {} THEN probe.seen \cup {chat_id} ELSE probe.seen]
    /\ UNCHANGED <<users, messages, nextId, now, appended, repLog, chat_locks, locks, task, calls, db>>

\* a call update_setting(chat_id, column, value): it has no try, so a storage error
\* (on connect, on the UPDATE, on the commit) propagates and the table keeps its rows
SetUpdate(chat_id, column, value, outcome) ==
    LET failed == outcome = "error" /\ column \in allowed_columns IN
    /\ chats' = IF failed THEN chats ELSE update_setting(chats, chat_id, column, value)
    /\ probe' = [op |-> "update", chat_id |-> chat_id, column |-> column, value |-> value,
                 fails |-> IF failed THEN {"update"} ELSE {},
                 before |-> SelectSettings(chats, chat_id),
                 raised |-> failed, result |-> <<>>,
                 seen |-> IF failed \/ column \notin allowed_columns THEN probe.seen
                          ELSE probe.seen \cup {chat_id}]
    /\ UNCHANGED <<users, messages, nextId, now, appended, repLog, chat_locks, locks, task, calls, db>>

InitSet ==
    /\ InitStores(0, 1)
    /\ InitTasks
    /\ probe = [op |-> "", chat_id |-> 0, column |-> "", value |-> 0, fails |-> {},
                before |-> <<>>, raised |-> FALSE, result |-> <<>>, seen |-> {}]

NextSet ==
    \/ \E chat_id \in Chats, fails \in StoreFaults : SetGet(chat_id, fails)
    \/ \E chat_id \in Chats, column \in Columns, value \in SettingValues, outcome \in Outcomes :
            SetUpdate(chat_id, column, value, outcome)

SpecSet == InitSet /\ [][NextSet]_vars

InitCtx == (\E n \in PreloadSizes, g \in PreloadGroups : InitStores(n, g)) /\ InitEngine

NextCtx ==
    \/ Tick
    \/ \E chat_id \in Chats, role \in Roles, content \in Texts,
          user_name \in Names \cup {""}, tie \in TieOrders :
            CtxAppend(chat_id, role, content, user_name, tie)

SpecCtx == InitCtx /\ [][NextCtx]_vars

-----------------------------------------------------------------------------
(* The conversation engine: concurrent ask_mitya_ai invocations *)

Init == (\E n \in PreloadSizes : InitStores(n, 1)) /\ InitEngine

Next ==
    \/ \E t \in Tasks, chat_id \in Chats, user_text \in Texts, args \in CallArgs,
          tie \in TieOrders, outcome \in Outcomes :
            Start(t, chat_id, user_text, args, tie, outcome)
    \/ \E t \in Tasks, tie \in TieOrders, outcome \in Outcomes : Fetch(t, tie, outcome)
    \/ \E t \in Tasks, outcome \in Outcomes : Rep1(t, outcome)
    \/ \E t \in Tasks, outcome \in Outcomes : Rep2(t, outcome)
    \/ \E t \in Tasks : Acquire(t)
    \/ \E t \in Tasks, resp \in Responses : Respond(t, resp)
    \/ \E t \in Tasks, tie \in TieOrders, outcome \in Outcomes : SaveReply(t, tie, outcome)

Spec == Init /\ [][Next]_vars

\* The steps of invocation t after its call. The event loop runs every task that is
\* ready, a store operation ends, and so does the endpoint call (by an answer, an error
\* or the client's timeout of 40 seconds).
Step(t) ==
    \/ \E outcome \in Outcomes : Fetch(t, "asc", outcome)
    \/ \E outcome \in Outcomes : Rep1(t, outcome)
    \/ \E outcome \in Outcomes : Rep2(t, outcome)
    \/ Acquire(t)
    \/ \E resp \in Responses : Respond(t, resp)
    \/ \E outcome \in Outcomes : SaveReply(t, "asc", outcome)

\* Termination is checked on invocations of one chat, which contend for its lock, called
\* as the private handler and as the group handler call, with an endpoint that raises,
\* gives a blank answer or gives a reply.
LiveArgs == {a \in CallArgs : ~a.is_auto /\ a.reply_to_text = None}
LiveResponses == {r \in Responses : r.kind = "raised" \/ (r.status = 200 /\ r.is_dict /\ r.response = <<>>)
                                    \/ r.content = <<" ", "a">>}

InitLive == InitStores(0, 1) /\ InitEngine

NextLive ==
    \/ \E t \in Tasks, user_text \in Texts, args \in LiveArgs, outcome \in Outcomes :
            Start(t, 1, user_text, args, "asc", outcome)
    \/ \E t \in Tasks, outcome \in Outcomes : Fetch(t, "asc", outcome)
    \/ \E t \in Tasks, outcome \in Outcomes : Rep1(t, outcome)
    \/ \E t \in Tasks, outcome \in Outcomes : Rep2(t, outcome)
    \/ \E t \in Tasks : Acquire(t)
    \/ \E t \in Tasks, resp \in LiveResponses : Respond(t, resp)
    \/ \E t \in Tasks, outcome \in Outcomes : SaveReply(t, "asc", outcome)

SpecLive == InitLive /\ [][NextLive]_vars /\ \A t \in Tasks : WF_vars(Step(t))

-----------------------------------------------------------------------------
(* The running bot: inbound messages handled concurrently *)

\* the endpoint raises or gives a reply
TurnResponses == {r \in Responses : r.kind = "raised" \/ r.content = <<" ", "a">>}

InitTurn == InitStores(0, 1) /\ InitEngine

NextTurn ==
    \/ \E t \in Tasks, msg \in Inbound : Receive(t, msg)
    \/ \E t \in Tasks, score \in Scores : Classified(t, score)
    \/ \E t \in Tasks, outcome \in UpdateOutcomes : Update(t, outcome)
    \/ \E t \in Tasks, fails \in StoreFaults, draw \in Draws : Settings(t, fails, draw)
    \/ \E t \in Tasks, outcome \in Outcomes : Call(t, "asc", outcome)
    \/ \E t \in Tasks, outcome \in Outcomes : Fetch(t, "asc", outcome)
    \/ \E t \in Tasks, outcome \in Outcomes : Rep1(t, outcome)
    \/ \E t \in Tasks, outcome \in Outcomes : Rep2(t, outcome)
    \/ \E t \in Tasks : Acquire(t)
    \/ \E t \in Tasks, resp \in TurnResponses : Respond(t, resp)
    \/ \E t \in Tasks, outcome \in Outcomes : SaveReply(t, "asc", outcome)

SpecTurn == InitTurn /\ [][NextTurn]_vars

-----------------------------------------------------------------------------
(* The running bot while its store works: chats with settings, users with history *)

\* The settings a chat can have when a message arrives: no row yet, or the row of an
\* earlier get_chat_settings changed from the settings menu.
FirstRow == InsertOrIgnore(<<>>, 1)
SettingsTables ==
    {<<>>,
     update_setting(update_setting(FirstRow, 1, "ai_enabled", 0), 1, "reply_chance", 100),
     update_setting(FirstRow, 1, "reply_chance", 100),
     update_setting(update_setting(FirstRow, 1, "voice_enabled", 0), 1, "reply_chance", 50)}

InitGate == InitData(0, 1) /\ InitEngine /\ chats \in SettingsTables

NextGate ==
    \/ \E t \in Tasks, msg \in Inbound : Receive(t, msg)
    \/ \E t \in Tasks, score \in Scores : Classified(t, score)
    \/ \E t \in Tasks : Update(t, "ok")
    \/ \E t \in Tasks, draw \in Draws : Settings(t, {}, draw)
    \/ \E t \in Tasks : Call(t, "asc", "ok")
    \/ \E t \in Tasks : Fetch(t, "asc", "ok")
    \/ \E t \in Tasks : Rep1(t, "ok")
    \/ \E t \in Tasks : Rep2(t, "ok")
    \/ \E t \in Tasks : Acquire(t)
    \/ \E t \in Tasks, resp \in TurnResponses : Respond(t, resp)
    \/ \E t \in Tasks : SaveReply(t, "asc", "ok")

SpecGate == InitGate /\ [][NextGate]_vars

\* The reputation a user can have when a message arrives: n earlier messages of one
\* score, each applied by update_reputation.
MaxHistory == 30

RECURSIVE Replay(_, _)
Replay(n, score) ==
    IF n = 0 THEN <<>> ELSE update_reputation(Replay(n - 1, score), 1, 7, "Ann", score)

ReplayLog(n, score) == [i \in 1..n |-> [chat_id |-> 1, user_id |-> 7, name |-> "Ann", change |-> score]]

Histories == {<<MaxHistory, 5>>, <<MaxHistory, -5>>, <<MaxHistory - 1, 5>>}

InitKarma ==
    /\ \E h \in Histories : users = Replay(h[1], h[2]) /\ repLog = ReplayLog(h[1], h[2])
    /\ messages = {} /\ appended = <<>> /\ nextId = 1 /\ now = 0 /\ calls = 0
    /\ db = [writer |-> None, conns |-> [c \in Conns |-> IdleConn]]
    /\ chats = <<>>
    /\ InitEngine

SpecKarma == InitKarma /\ [][NextGate]_vars

-----------------------------------------------------------------------------
(* The persona resolver as a function of the score *)

\* the resolver is applied to the score drawn by the initial state
Resolve ==
    /\ ~probe.resolved
    /\ probe' = [probe EXCEPT !.text = advice_for(probe.score), !.resolved = TRUE]
    /\ UNCHANGED <<users, messages, nextId, now, appended, repLog, chat_locks, locks, task, calls, db, chats>>

InitAdvice ==
    /\ InitStores(0, 1)
    /\ InitTasks
    /\ \E score \in (0 - MaxScore)..MaxScore :
            probe = [score |-> score, text |-> "", resolved |-> FALSE]

NextAdvice == Resolve

SpecAdvice == InitAdvice /\ [][NextAdvice]_vars

-----------------------------------------------------------------------------
(* The classifier as a function of the endpoint's answer *)

\* the classifier is applied to the answer drawn by the initial state
Classify ==
    /\ ~probe.classified
    /\ probe' = [probe EXCEPT !.outcome = check_toxicity_llm(probe.resp), !.classified = TRUE]
    /\ UNCHANGED <<users, messages, nextId, now, appended, repLog, chat_locks, locks, task, calls, db, chats>>

InitTox ==
    /\ \E n \in PreloadSizes : InitStores(n, 1)
    /\ InitTasks
    /\ \E resp \in ToxResponses :
            probe = [resp |-> resp, outcome |-> [exc |-> FALSE, value |-> 0], classified |-> FALSE]

NextTox == Classify

SpecTox == InitTox /\ [][NextTox]_vars

-----------------------------------------------------------------------------
(* Claims about the reputation store *)

Clamp(x) == Max(RepMin, Min(RepMax, x))

CallsOn(chat_id, user_id) ==
    SelectSeq(repLog, LAMBDA c : c.chat_id = chat_id /\ c.user_id = user_id)

RECURSIVE FoldClamp(_)
\* s_0 = 0, s_i = clamp(s_(i-1) + d_i)
FoldClamp(cs) ==
    IF cs = <<>> THEN 0 ELSE Clamp(FoldClamp(SubSeq(cs, 1, Len(cs) - 1)) + cs[Len(cs)].change)

\* C1: after every update_reputation call, the call that creates the row included,
\* every stored score lies in [-150, 150].
C1_ClampInvariant ==
    \A k \in DOMAIN users : users[k].reputation \in RepMin..RepMax

\* C2: after any sequence of update_reputation calls on one (chat_id, user_id),
\* get_user_reputation returns the left-to-right clamped fold of the deltas, starting
\* from 0, and the stored name is the name of the last call.
C2_FoldResult ==
    \A chat_id \in Chats, user_id \in UserIds :
        LET cs == CallsOn(chat_id, user_id) IN
        /\ get_user_reputation(users, chat_id, user_id) = FoldClamp(cs)
        /\ cs # <<>> => /\ Key(chat_id, user_id) \in DOMAIN users
                        /\ users[Key(chat_id, user_id)].first_name = cs[Len(cs)].name

-----------------------------------------------------------------------------
(* Claims about the context store *)

AppendedTo(chat_id) == SelectSeq(appended, LAMBDA r : r.chat_id = chat_id)

LastN(s, n) == SubSeq(s, Max(1, Len(s) - n + 1), Len(s))

Turns(rows) == [i \in 1..Len(rows) |-> [role |-> rows[i].role, content |-> rows[i].content]]

\* C3: get_context returns at most N = 20 entries, in ascending creation order, and
\* they are exactly the last N messages appended to the chat.
C3_ContextBound ==
    \A chat_id \in Chats, tie \in TieOrders :
        LET got == GetContextRows(messages, chat_id, tie) IN
        /\ Len(got) <= KeepLimit
        /\ \A i, j \in 1..Len(got) : i < j => got[i].id < got[j].id
        /\ get_context(messages, chat_id, tie) = Turns(LastN(AppendedTo(chat_id), KeepLimit))

\* C4: after every completed save_context the table holds at most 20 rows of each chat,
\* they are the most recently inserted rows of that chat, and the row just inserted is
\* among them.
C4_StoreRetention ==
    \A chat_id \in Chats :
        LET all == AppendedTo(chat_id)
            kept == ChatRows(messages, chat_id) IN
        /\ Cardinality(kept) <= KeepLimit
        /\ kept = {all[i] : i \in Max(1, Len(all) - KeepLimit + 1)..Len(all)}
        /\ all # <<>> => all[Len(all)] \in kept

-----------------------------------------------------------------------------
(* Claims about the conversation engine *)

Range(s) == {s[i] : i \in DOMAIN s}

\* the payload of t has been sent to the endpoint
Submitted(t) == task[t].pc \in {"post", "save_reply", "done"}

\* C5: at most one call to the chat-completion endpoint is in flight for any chat_id.
C5_OneInFlightPerChat ==
    \A chat_id \in Chats :
        Cardinality({t \in Tasks : task[t].pc = "post" /\ task[t].chat_id = chat_id}) <= 1

\* an invocation waits for the lock of its chat while another one's call is in flight
C5_Witness ==
    \E t1, t2 \in Tasks :
        /\ task[t1].pc = "post" /\ task[t2].pc = "lock"
        /\ task[t1].chat_id = task[t2].chat_id

\* C6: the turns of one chat are linearized: an invocation whose completion call is sent
\* after another invocation of the chat has appended its assistant reply submits a
\* history that contains that reply (the chat holding no more rows than one fetch
\* returns).
C6_TurnsLinearized ==
    \A t1, t2 \in Tasks :
        ( /\ t1 # t2
          /\ task[t1].chat_id = task[t2].chat_id
          /\ task[t1].pc = "done" /\ Len(task[t1].wrote) = 2
          /\ task[t2].pc = "post"
          /\ Len(AppendedTo(task[t2].chat_id)) <= FetchLimit )
        => task[t1].wrote[2] \in Range(task[t2].hist_ids)

\* the completion call failed: it raised, the status is no success, or no field of the
\* body carries text
CallFailed(resp) ==
    \/ resp.kind = "raised"
    \/ resp.status # 200
    \/ ~resp.is_dict
    \/ Strip(resp.content) = <<>> /\ Strip(resp.response) = <<>>

\* the user turn of invocation t, as save_context stores it
IsUserTurnOf(t, row) ==
    /\ row.chat_id = task[t].chat_id
    /\ row.role = "user"
    /\ row.content = <<"Ot polzovatelya ", task[t].user_name, ": ">> \o task[t].user_text

\* C7: when the completion call fails the invocation returns the fallback phrase, and
\* what it has appended to the context store is its user turn and nothing else.
C7_FallbackOnFailure ==
    \A t \in Tasks :
        (task[t].pc = "done" /\ CallFailed(task[t].resp)) =>
            /\ task[t].result = Fallback
            /\ Len(task[t].wrote) = 1
            /\ IsUserTurnOf(t, appended[task[t].wrote[1]])

\* an invocation has ended after a failed completion call
C7_Witness ==
    \E t \in Tasks : task[t].pc = "done" /\ task[t].resp.status = 500

\* the assistant turn with content `text` is what invocation t appended after its user turn
AppendedReply(t, text) ==
    /\ Len(task[t].wrote) = 2
    /\ appended[task[t].wrote[2]].chat_id = task[t].chat_id
    /\ appended[task[t].wrote[2]].role = "assistant"
    /\ appended[task[t].wrote[2]].content = text

\* C8 as stated: on a success status the reply text is the message content if non-empty,
\* otherwise the response field if non-empty; that text, stripped, is appended as one
\* assistant turn and returned; with neither field non-empty the turn is a failure.
C8_ReplyAsStated ==
    \A t \in Tasks :
        ( /\ task[t].pc = "done" /\ task[t].errors = <<>>
          /\ task[t].resp.kind = "http" /\ task[t].resp.status = 200 ) =>
            LET r == task[t].resp
                text == IF r.content # <<>> THEN r.content ELSE r.response IN
            IF r.content = <<>> /\ r.response = <<>>
            THEN task[t].result = Fallback /\ Len(task[t].wrote) = 1
            ELSE task[t].result = Strip(text) /\ AppendedReply(t, Strip(text))

\* the append of the assistant turn of invocation t has raised
ReplyAppendRaised(t) ==
    task[t].pc = "done" /\ \E i \in DOMAIN task[t].errors : task[t].errors[i] = "save_context"

\* C8 (amended): on a success status with a JSON object the text selected is the message
\* content if non-empty, otherwise the response field; if it is non-empty once stripped,
\* it is appended, stripped, as one assistant turn and returned, unless that append
\* raises; if it is blank, or the append raises, the turn is a failure: the fallback
\* phrase is returned and no assistant turn is appended.
C8_ReplyOnSuccess ==
    \A t \in Tasks :
        ( /\ task[t].pc = "done"
          /\ task[t].resp.kind = "http" /\ task[t].resp.status = 200 /\ task[t].resp.is_dict ) =>
            LET r == task[t].resp
                text == Strip(IF r.content # <<>> THEN r.content ELSE r.response) IN
            IF text = <<>> \/ ReplyAppendRaised(t)
            THEN task[t].result = Fallback /\ Len(task[t].wrote) = 1
            ELSE task[t].result = text /\ AppendedReply(t, text)

\* an invocation has returned the stripped message content of a body that has both fields
C8_Witness ==
    \E t \in Tasks :
        /\ task[t].pc = "done"
        /\ task[t].resp.content = <<" ", "a">> /\ task[t].resp.response = <<"b", " ">>
        /\ task[t].result = <<"a">>

\* C9: when reply_to_text is given, the sequence submitted holds it as an assistant entry
\* placed before the entry of the invocation's own user turn.
C9_ReplyContextBeforeUserTurn ==
    \A t \in Tasks :
        ( /\ Submitted(t)
          /\ task[t].reply_to_text # None
          /\ task[t].wrote[1] \in Range(task[t].hist_ids) ) =>
            \E i, j \in DOMAIN task[t].history :
                /\ i < j
                /\ task[t].history[i] = [role |-> "assistant", content |-> task[t].reply_to_text]
                /\ task[t].hist_ids[j] = task[t].wrote[1]

-----------------------------------------------------------------------------
(* Claims about the persona resolver *)

\* C10: the instruction of a score is that of the highest threshold the score meets or
\* exceeds, so a score of 120 or more gets the first entry's text; a score below every
\* threshold gets the text extra_info starts with.
C10_PersonaResolution ==
    LET met == {i \in DOMAIN REP_ADVICE : probe.score >= REP_ADVICE[i][1]} IN
    probe.resolved =>
        /\ met = {} => probe.text = DefaultAdvice
        /\ met # {} => \E i \in met :
                          /\ \A j \in met : REP_ADVICE[j][1] <= REP_ADVICE[i][1]
                          /\ probe.text = REP_ADVICE[i][2]
        /\ probe.score >= 120 => probe.text = REP_ADVICE[1][2]

\* the resolver has been applied to 250 and has given the text of threshold 120
C10_Witness == probe.score = 250 /\ probe.text = "Legenda Dvora"

\* C11: for every score from -1000 to 1000 the resolver gives a non-empty instruction,
\* and for every score of the clamp range [-150, 150] some threshold of the table is
\* met, so the result is an entry of the table and never the unmatched default.
C11_PersonaCoverage ==
    probe.resolved =>
        /\ probe.text # ""
        /\ probe.score \in RepMin..RepMax =>
              /\ \E i \in DOMAIN REP_ADVICE :
                    probe.score >= REP_ADVICE[i][1] /\ probe.text = REP_ADVICE[i][2]
              /\ probe.text # DefaultAdvice

-----------------------------------------------------------------------------
(* Claims about the classifier *)

\* the first digit of s
FirstDigit(s) == CHOOSE p \in 1..Len(s) : s[p] \in Digits /\ \A q \in 1..(p - 1) : s[q] \notin Digits

\* the first signed integer token of s: its first run of digits, negative when a minus
\* sign stands right before the run
FirstInteger(s) ==
    LET p == FirstDigit(s)
        n == IntOf(DigitRun(s, p)) IN
    IF p > 1 /\ s[p - 1] = "-" THEN 0 - n ELSE n

HasDigit(s) == \E p \in 1..Len(s) : s[p] \in Digits

\* the endpoint has answered with an object whose response is a text
TextAnswer(resp) == resp.kind = "http" /\ resp.body = "dict" /\ resp.field = "text"

\* C12: for every response text the classifier returns an integer in [-5, 5], which is
\* the first signed integer token of the text clamped to [-5, 5].
C12_ClassifierRange ==
    probe.classified =>
        /\ ~probe.outcome.exc
        /\ probe.outcome.value \in -5..5
        /\ (TextAnswer(probe.resp) /\ HasDigit(probe.resp.text)) =>
              probe.outcome.value = Max(-5, Min(5, FirstInteger(probe.resp.text)))

\* the classifier has been applied to the text "a-7" and has returned -5
C12_Witness ==
    /\ probe.classified
    /\ probe.resp.text = <<"a", "-", "7">>
    /\ probe.outcome.value = -5

\* C13: on a transport error or timeout, a malformed body, or a response without an
\* integer, the classifier returns 0 and does not raise; it leaves the stores alone.
C13_ClassifierDegradation ==
    probe.classified =>
        /\ ~probe.outcome.exc
        /\ (~TextAnswer(probe.resp) \/ ~HasDigit(probe.resp.text)) => probe.outcome.value = 0
        /\ users = <<>> /\ repLog = <<>>
        /\ messages = Range(appended) /\ nextId = Len(appended) + 1

\* the classifier has been applied to a call that raised, or to a body that is no object
C13_Witness ==
    /\ probe.classified
    /\ probe.resp.kind = "raised" \/ probe.resp.body = "nondict"
    /\ probe.outcome = [exc |-> FALSE, value |-> 0]

-----------------------------------------------------------------------------
(* Claims about concurrent updates and about reads of the reputation store *)

RECURSIVE ApplyCalls(_)
\* the table after the calls of cs made one after the other on an empty table
ApplyCalls(cs) ==
    IF cs = <<>> THEN <<>>
    ELSE update_reputation(ApplyCalls(SubSeq(cs, 1, Len(cs) - 1)), cs[Len(cs)].chat_id,
                           cs[Len(cs)].user_id, cs[Len(cs)].name, cs[Len(cs)].change)

\* C14: whatever the interleaving of concurrent update_reputation calls, the table is
\* what the completed calls give when made one after the other, in the order of their
\* commits: every call's delta is applied to the score the call before it left.
C14_NoLostUpdate == users = ApplyCalls(repLog)

\* calls on one key overlap: the first to open holds the write lock with its upsert
\* pending, after the second has committed, while the third waits for the lock
C14_Witness ==
    /\ \A c \in Conns : db.conns[c].chat_id = 1 /\ db.conns[c].change = 5
    /\ db.conns[1].pc = "commit" /\ db.conns[2].pc = "done" /\ db.conns[3].pc = "execute"
    /\ db.conns[1].pending[1][Key(1, 7)].reputation = 10

\* C20: get_user_reputation returns the stored score when the key has a row and 0 when
\* it has none, and the table after the read is the table before it.
C20_GetReputation ==
    probe.read =>
        LET k == Key(probe.chat_id, probe.user_id) IN
        /\ k \in DOMAIN probe.before => probe.score = probe.before[k].reputation
        /\ k \notin DOMAIN probe.before => probe.score = 0
        /\ probe.after = probe.before

\* a read has returned the score of an existing row
C20_Witness ==
    /\ probe.read
    /\ Key(probe.chat_id, probe.user_id) \in DOMAIN probe.before
    /\ probe.score = -5

-----------------------------------------------------------------------------
(* Claims about failures and termination of ask_mitya_ai *)

\* a store operation of invocation t has raised
StoreRaised(t) == task[t].errors # <<>>

\* C15: whatever fails during an invocation (the completion call, or a context store or
\* reputation store operation of the turn), the invocation does not end with an
\* exception: it returns, and what it returns is the fallback phrase.
C15_NeverRaises ==
    \A t \in Tasks :
        /\ task[t].pc # "raised"
        /\ (task[t].pc = "done" /\ (StoreRaised(t) \/ CallFailed(task[t].resp))) =>
              task[t].result = Fallback

\* invocation t does not hold the lock of its chat
LockLeft(t) == task[t].lock # 0 => locks[task[t].lock].holder # <<t>>

\* C16: every invocation eventually returns a text, after at most one completion call,
\* with the lock of its chat left on every path, and an invocation that waits for the
\* lock eventually has it.
C16_Terminates ==
    /\ \A t \in Tasks : (task[t].pc # "idle") ~> (task[t].pc = "done" /\ task[t].result # <<>>)
    /\ \A t \in Tasks : (task[t].pc = "lock") ~> (task[t].pc = "post")
    /\ [](\A t \in Tasks : /\ task[t].posts <= 1
                           /\ task[t].pc \in {"done", "raised"} => LockLeft(t))

\* C19: the first entry of every sequence submitted is the system instruction and no
\* other entry has the system role; the instruction embeds the attitude instruction of
\* the stored reputation of (chat_id, user_id) when user_id is given and the neutral
\* default when it is not.
C19_PromptAssembly ==
    \A t \in Tasks :
        Submitted(t) =>
            LET tk == task[t]
                instr == IF tk.user_id = None THEN DefaultAdvice
                         ELSE advice_for(get_user_reputation(users, tk.chat_id, tk.user_id[1])) IN
            /\ tk.history[1].role = "system"
            /\ \A i \in 2..Len(tk.history) : tk.history[i].role # "system"
            /\ tk.history[1].content =
                  BasePrompt(tk.user_name) \o <<instr>> \o (IF tk.is_auto THEN <<AutoSuffix>> ELSE <<>>)

-----------------------------------------------------------------------------
(* Claims about the handlers *)

\* the positions of a handler's task inside ask_mitya_ai
EnginePcs == {"call", "get_context", "rep1", "rep2", "lock", "post", "save_reply"}

\* the handler of t has come to its ask_mitya_ai call
Called(t) == task[t].msg # <<>> /\ task[t].pc \in EnginePcs \cup {"done", "raised"}

\* C17: no step of an ask_mitya_ai invocation, on any path, changes the reputation
\* store: no row is created, no score and no name is changed.
C17_ReputationUntouched ==
    [][(\E t \in Tasks : task[t].pc \in EnginePcs /\ task'[t] # task[t]) => users' = users]_vars

\* an invocation has returned a reply while the store holds a row of its user
C17_Witness ==
    \E t \in Tasks :
        /\ task[t].pc = "done" /\ Len(task[t].wrote) = 2
        /\ Key(task[t].chat_id, task[t].user_id[1]) \in DOMAIN users

\* C18 as stated: the score of the inbound message is applied to the reputation store
\* before the engine resolves the persona, so that the instruction of every reply is
\* resolved from a reputation that includes the score of the message replied to.
C18_ScoreBeforePersona ==
    \A t \in Tasks : (Called(t) /\ task[t].score # 0) => task[t].updated

\* the messages whose score the handlers apply
ScoreApplies(msg, score) ==
    /\ score # 0 /\ ~msg.is_bot
    /\ msg.kind = "text" =>
          ~msg.is_forward /\ (msg.is_private \/ msg.mention \/ msg.is_reply_to_me)

\* C18 (amended): when the handler applies the score of the message (sender no bot and
\* score nonzero; for a text message also not forwarded, and private, naming the bot or
\* replying to it), update_reputation has returned before ask_mitya_ai is called, and
\* the reputation the engine resolves the persona from is read after it, and includes
\* the score when the upsert was committed; for every other message the handler calls
\* ask_mitya_ai without having applied the score.
C18_AppliedScoreBeforePersona ==
    \A t \in Tasks :
        Called(t) =>
            /\ task[t].updated = ScoreApplies(task[t].msg[1], task[t].score)
            /\ (task[t].updated /\ "upsert" \notin Range(task[t].errors) /\ Submitted(t)) =>
                  \E i \in DOMAIN repLog :
                      /\ repLog[i].change = task[t].score
                      /\ task[t].rep \in {ApplyCalls(SubSeq(repLog, 1, j))[Key(1, 7)].reputation :
                                              j \in i..Len(repLog)}

\* a reply to a message scored -5 is being made from the reputation -5 that the message
\* has given its sender
C18_Witness ==
    \E t \in Tasks :
        /\ Submitted(t) /\ task[t].msg # <<>>
        /\ task[t].updated /\ task[t].score = -5 /\ task[t].rep = -5

-----------------------------------------------------------------------------
(* Claims about the settings store *)

\* C21: the first get_chat_settings on a chat without a row returns the defaults
\* (1, 1, 0) and leaves a row holding them, and every chat that a get_chat_settings or
\* update_setting call has referenced has its row in the table (one row, chat_id being
\* the key).
C21_SettingsRows ==
    /\ (probe.op = "get" /\ probe.fails = {} /\ probe.before = <<>>) =>
            /\ probe.result = <<DefaultSettings>>
            /\ probe.chat_id \in DOMAIN chats /\ chats[probe.chat_id] = DefaultSettings
    /\ \A c \in probe.seen : c \in DOMAIN chats

\* what get_chat_settings returned, or would have returned, before the call of probe
PreviousSettings == IF probe.before = <<>> THEN DefaultSettings ELSE probe.before[1]

\* C30: after update_setting(chat_id, column, value) with an allowed column, the next
\* get_chat_settings(chat_id) returns value for that column and the previous values for
\* the other two, whether or not the chat had a row; update_setting with a column that
\* is not allowed changes nothing.
C30_WriteThenRead ==
    [][/\ (/\ probe.op = "update" /\ ~probe.raised /\ probe.column \in allowed_columns
           /\ probe'.op = "get" /\ probe'.fails = {} /\ probe'.chat_id = probe.chat_id)
          => probe'.result = <<[PreviousSettings EXCEPT ![probe.column] = probe.value]>>
       /\ (probe'.op = "update" /\ probe'.column \notin allowed_columns) => chats' = chats]_vars

-----------------------------------------------------------------------------
(* Claims about storage failures in the handlers *)

\* C22: update_reputation is best-effort: whichever of its steps fails (the connect,
\* the upsert, the commit), the call returns without an exception, the users table is
\* left as it was, and the handler goes on with the rest of the turn.
C22_BestEffort ==
    [][\A t \in Tasks :
          (task[t].pc = "update" /\ task'[t] # task[t]) =>
              /\ "update_reputation" \notin Range(task'[t].errors)
              /\ task'[t].pc = AfterUpdate(task[t]).pc
              /\ task'[t].errors # task[t].errors => users' = users]_vars

\* C23: a storage failure while a user's reputation is read, or while a chat's settings
\* are read or created, raises nothing: no handler and no invocation is ended by an
\* exception of get_user_reputation or of get_chat_settings, and the settings a handler
\* works with are the stored ones or the defaults (1, 1, 0).
C23_ReadDefaults ==
    \A t \in Tasks :
        /\ "get_user_reputation" \notin Range(task[t].errors)
        /\ "get_chat_settings" \notin Range(task[t].errors)
        /\ task[t].s \in {<<>>, <<DefaultSettings>>} \cup {<<chats[c]>> : c \in DOMAIN chats}

-----------------------------------------------------------------------------
(* Claims about the engine across chats *)

\* C24: an invocation waits for the lock only while an invocation of its own chat holds
\* it, never for one of another chat; every chat_id has a lock handle of its own, and a
\* lookup gives the handle the chat's earlier invocations got.
C24_ChatsIndependent ==
    /\ \A t \in Tasks :
          task[t].pc = "lock" =>
              \E u \in Tasks : /\ locks[task[t].lock].holder = <<u>>
                               /\ task[u].chat_id = task[t].chat_id
    /\ \A a, b \in DOMAIN chat_locks : a # b => chat_locks[a] # chat_locks[b]
    /\ \A t \in Tasks : task[t].lock # 0 => chat_locks[task[t].chat_id] = task[t].lock

\* the completion calls of two chats are in flight at the same time
C24_Witness ==
    \E t, u \in Tasks :
        /\ task[t].pc = "post" /\ task[u].pc = "post"
        /\ task[t].chat_id # task[u].chat_id

\* the stored turns of the submitted sequence, by row id, in order
StoredIds(t) == SelectSeq(task[t].hist_ids, LAMBDA i : i # 0)

\* C25: the sequence an invocation submits to the endpoint contains the user turn the
\* invocation has appended, as the most recent of the stored turns in it, however many
\* messages the chat already holds.
C25_CurrentTurnSubmitted ==
    \A t \in Tasks :
        Submitted(t) =>
            /\ StoredIds(t) # <<>>
            /\ StoredIds(t)[Len(StoredIds(t))] = task[t].wrote[1]

-----------------------------------------------------------------------------
(* Claims about the running bot *)

\* C26: in the running bot, where every delta is a classifier score of [-5, 5], every
\* stored reputation is in [-150, 150], whatever the messages and their interleaving.
C26_KarmaBound ==
    \A k \in DOMAIN users : RepMin <= users[k].reputation /\ users[k].reputation <= RepMax

\* a message scored 5 has been applied to a user who was at the upper bound, and one
\* scored -5 to a user at the lower bound
C26_Witness ==
    /\ Len(repLog) > MaxHistory
    /\ \/ repLog[1].change = 5 /\ repLog[Len(repLog)].change = 5
          /\ users[Key(1, 7)].reputation = RepMax
       \/ repLog[1].change = -5 /\ repLog[Len(repLog)].change = -5
          /\ users[Key(1, 7)].reputation = RepMin

\* the text message is addressed to the bot by a sender whose karma counts
KarmaGate(msg) ==
    /\ ~msg.is_bot /\ ~msg.is_forward
    /\ msg.is_private \/ msg.mention \/ msg.is_reply_to_me

\* C27: a text message changes the reputation store only if its sender is not a bot, it
\* is not forwarded, it is addressed to the bot (private chat, the bot's name, a reply to
\* the bot) and its score is nonzero; no other text message changes the store, and a
\* message scored zero creates no row.
C27_KarmaGating ==
    [][\A t \in Tasks :
          (/\ task'[t] # task[t] /\ task[t].msg # <<>> /\ task[t].msg[1].kind = "text"
           /\ users' # users)
          => KarmaGate(task[t].msg[1]) /\ task[t].score # 0]_vars

\* a text message has given its sender a reputation row
C27_Witness ==
    \E t \in Tasks :
        /\ task[t].msg # <<>> /\ task[t].msg[1].kind = "text"
        /\ task[t].updated /\ "upsert" \notin Range(task[t].errors)
        /\ Key(1, 7) \in DOMAIN users

\* C28: in a chat whose stored ai_enabled is 0 no inbound message, text or voice, brings
\* its handler to an ask_mitya_ai call, and no message is appended to the context store.
C28_AiGate ==
    (1 \in DOMAIN chats /\ chats[1].ai_enabled = 0) =>
        /\ \A t \in Tasks : ~Called(t)
        /\ appended = <<>>

\* a group message that neither names the bot nor replies to it
Unaddressed(msg) ==
    msg.kind = "text" /\ ~msg.is_private /\ ~msg.mention /\ ~msg.is_reply_to_me

\* the handler of t has made its decision about the ask_mitya_ai call
Decided(t) == task[t].pc \in (EnginePcs \ {"call"}) \cup {"done", "raised", "ended", "failed"}

\* C29: for a group message that neither names the bot nor replies to it the text
\* handler never calls ask_mitya_ai when reply_chance is 0, always calls it when
\* reply_chance is 100 and ai_enabled is set, and calls it with is_auto; and no handler
\* comes to a second ask_mitya_ai call.
C29_UnsolicitedGate ==
    /\ [](\A t \in Tasks :
            (task[t].msg # <<>> /\ Unaddressed(task[t].msg[1]) /\ task[t].s # <<>>) =>
                /\ task[t].s[1].reply_chance = 0 => task[t].pc = "ended"
                /\ (task[t].s[1].reply_chance = 100 /\ task[t].s[1].ai_enabled # 0) => Called(t)
                /\ Called(t) => task[t].is_auto)
    /\ [][\A t \in Tasks : Decided(t) => Decided(t)' /\ task'[t].pc # "call"]_vars

\* an unsolicited reply has been made in a chat whose reply_chance is 100
C29_Witness ==
    \E t \in Tasks :
        /\ task[t].msg # <<>> /\ Unaddressed(task[t].msg[1])
        /\ task[t].s # <<>> /\ task[t].s[1].reply_chance = 100
        /\ task[t].pc = "done" /\ task[t].is_auto /\ Len(task[t].wrote) = 2

-----------------------------------------------------------------------------
(* Claims about the context store across chats *)

\* C31: a save_context on one chat, its pruning included, leaves the stored messages of
\* every other chat as they were, and get_context of a chat returns rows of that chat
\* only, each of them appended to it.
C31_ChatIsolation ==
    /\ [](\A chat_id \in Chats, tie \in TieOrders :
            LET got == GetContextRows(messages, chat_id, tie) IN
            \A i \in 1..Len(got) :
                /\ got[i].chat_id = chat_id
                /\ got[i] \in Range(AppendedTo(chat_id)))
    /\ [][\A b \in Chats :
            (/\ Len(appended') = Len(appended) + 1
             /\ appended'[Len(appended')].chat_id # b)
            => ChatRows(messages', b) = ChatRows(messages, b)]_vars

\* a save_context has pruned one chat while another chat holds messages, and each
\* chat's context is read back
C31_Witness ==
    \E a, b \in Chats :
        /\ a # b
        /\ Len(AppendedTo(a)) > KeepLimit /\ Cardinality(ChatRows(messages, a)) = KeepLimit
        /\ ChatRows(messages, b) # {}
        /\ appended[Len(appended)].chat_id = a
        /\ Len(GetContextRows(messages, a, "asc")) = FetchLimit
        /\ Len(GetContextRows(messages, b, "asc")) = Cardinality(ChatRows(messages, b))

====
